---- MODULE Spec2Model ----
(***************************************************************************)
(* A model of java_version_config_updater.py: JavaVersionConfigUpdater     *)
(* reads a list of repositories, checks each one out, detects the Java     *)
(* version in build.gradle, renders .circleci/config.yml from a master     *)
(* template and commits and pushes it.                                     *)
(*                                                                         *)
(* Text is modelled as a sequence of tokens (a token is a one-character    *)
(* string or a fixed word of the input language).  An optional value       *)
(* (Python's None or a value) is a set with at most one element.           *)
(***************************************************************************)
EXTENDS Integers, Sequences, FiniteSets, TLC

VARIABLES
    pc,                      \* position of the run: the call that is next
    repo_file,               \* the repository list file given on the command line
    master_config_file,      \* the master template file given on the command line
    master_config_template,  \* self.master_config_template: {} until loaded
    repos,                   \* the list read_repositories returned
    idx,                     \* index in repos of the entry being processed
    repo_path,               \* clone_repository's return value: {} is None
    java_version,            \* detect_java_version's return value: {} is None
    wc,                      \* the workspace: local path -> working copy
    stages,                  \* the stages run for the current entry, with results
    gitOps,                  \* git add/commit/push calls made for the current entry
    attempts,                \* indices of the entries handed to clone_repository
    exit_status,             \* {} while running, {0} normal end, {1} abnormal end
    fnInput,                 \* input of a function applied on its own
    fnOutput                 \* its result: {} before the call

vars == <<pc, repo_file, master_config_file, master_config_template, repos, idx,
          repo_path, java_version, wc, stages, gitOps, attempts, exit_status,
          fnInput, fnOutput>>

----------------------------------------------------------------------------
(* Bounds of the model *)

MaxRepos == 3        \* rows of the repository list
MaxVersionLen == 3   \* characters of a version string given to the image selector
MaxStatements == 2   \* statements of a build.gradle given to the detector

----------------------------------------------------------------------------
(* Sequences of tokens *)

SeqsUpTo(S, n) == UNION {[1..k -> S] : k \in 0..n}

RECURSIVE Concat(_)
Concat(ss) == IF ss = <<>> THEN <<>> ELSE Head(ss) \o Concat(Tail(ss))

\* str.replace(old, new) where old is a single token: every occurrence
ReplaceFirstOnly(s, old, new) ==
    IF \E i \in 1..Len(s) : s[i] = old
    THEN LET i == CHOOSE k \in 1..Len(s) :
                      s[k] = old /\ \A j \in 1..(k - 1) : s[j] # old
         IN  SubSeq(s, 1, i - 1) \o new \o SubSeq(s, i + 1, Len(s))
    ELSE s
RECURSIVE Replace(_, _, _)
Replace(s, old, new) ==
    IF s = <<>> THEN <<>>
    ELSE (IF Head(s) = old THEN new ELSE <<Head(s)>>) \o Replace(Tail(s), old, new)

\* s.split(sep)[-1]: the tokens after the last separator
SplitLast(s, sep) ==
    IF \E i \in 1..Len(s) : s[i] = sep
    THEN LET i == CHOOSE k \in 1..Len(s) :
                      s[k] = sep /\ \A j \in (k + 1)..Len(s) : s[j] # sep
         IN  SubSeq(s, i + 1, Len(s))
    ELSE s

----------------------------------------------------------------------------
(* get_docker_image_for_java_version *)

ImageA == <<"circleci/openjdk:17-buster-node-browsers-legacy">>
ImageB == <<"circleci/openjdk:13.0-buster-node-browsers-legacy">>

Digits == {"0", "1", "2", "3", "4", "5", "6", "7", "8", "9"}
DigitValue(c) ==
    CASE c = "0" -> 0 [] c = "1" -> 1 [] c = "2" -> 2 [] c = "3" -> 3
      [] c = "4" -> 4 [] c = "5" -> 5 [] c = "6" -> 6 [] c = "7" -> 7
      [] c = "8" -> 8 [] c = "9" -> 9
Whitespace == {" ", "\n"}

\* str.strip(), which int() applies to its argument
RECURSIVE LStrip(_)
LStrip(s) == IF s # <<>> /\ Head(s) \in Whitespace THEN LStrip(Tail(s)) ELSE s
RECURSIVE RStrip(_)
RStrip(s) ==
    IF s # <<>> /\ s[Len(s)] \in Whitespace
    THEN RStrip(SubSeq(s, 1, Len(s) - 1)) ELSE s
Strip(s) == RStrip(LStrip(s))

\* the digits of a Python integer literal: digits, single underscores between them
IsDigitGroup(s) ==
    /\ s # <<>>
    /\ s[1] \in Digits
    /\ s[Len(s)] \in Digits
    /\ \A i \in 1..Len(s) : s[i] \in Digits \cup {"_"}
    /\ \A i \in 1..(Len(s) - 1) : ~(s[i] = "_" /\ s[i + 1] = "_")

Unsigned(s) == IF s # <<>> /\ Head(s) \in {"+", "-"} THEN Tail(s) ELSE s

\* int(s) raises ValueError exactly when this is false
IntParses(s) == IsDigitGroup(Unsigned(Strip(s)))

RECURSIVE DigitsValue(_, _)
DigitsValue(s, acc) ==
    IF s = <<>> THEN acc
    ELSE IF Head(s) = "_" THEN DigitsValue(Tail(s), acc)
    ELSE DigitsValue(Tail(s), 10 * acc + DigitValue(Head(s)))

\* int(s), where it does not raise
IntValue(s) ==
    LET t == Strip(s)
        v == DigitsValue(Unsigned(t), 0)
    IN  IF t # <<>> /\ Head(t) = "-" THEN 0 - v ELSE v

GetDockerImageOffByOne(java_version_) ==
    IF IntParses(java_version_)
    THEN IF IntValue(java_version_) > 17 THEN ImageA ELSE ImageB
    ELSE ImageB
GetDockerImage(java_version_) ==
    IF IntParses(java_version_)
    THEN LET java_version_int == IntValue(java_version_)
         IN  IF java_version_int >= 17 THEN ImageA
             ELSE IF java_version_int >= 13 THEN ImageB
             ELSE ImageB
    ELSE ImageB          \* except ValueError

----------------------------------------------------------------------------
(* detect_java_version *)

SC == "sourceCompatibility"
JV == "JavaVersion.VERSION_"
Quotes == {"'", "\""}

\* \s* from position i: the first position that holds no whitespace
RECURSIVE SkipWs(_, _)
SkipWs(s, i) ==
    IF i <= Len(s) /\ s[i] \in Whitespace THEN SkipWs(s, i + 1) ELSE i

\* (\d+) from position i: the longest run of digits
RECURSIVE DigitRun(_, _)
DigitRun(s, i) ==
    IF i <= Len(s) /\ s[i] \in Digits THEN <<s[i]>> \o DigitRun(s, i + 1) ELSE <<>>

\* where the "=" of sourceCompatibility\s*=\s* is followed, or 0 if no match at i
AfterAssign(s, i) ==
    IF i <= Len(s) /\ s[i] = SC
    THEN LET j == SkipWs(s, i + 1)
         IN  IF j <= Len(s) /\ s[j] = "=" THEN SkipWs(s, j + 1) ELSE 0
    ELSE 0

\* sourceCompatibility\s*=\s*['"]?(\d+)['"]? matched at i: group 1, or <<>>
DirectGroupAt(s, i) ==
    LET k == AfterAssign(s, i)
        d == IF k # 0 /\ k <= Len(s) /\ s[k] \in Quotes THEN k + 1 ELSE k
    IN  IF k = 0 THEN <<>> ELSE DigitRun(s, d)

\* sourceCompatibility\s*=\s*JavaVersion\.VERSION_(\d+) matched at i: group 1, or <<>>
SymbolicGroupAt(s, i) ==
    LET k == AfterAssign(s, i)
    IN  IF k # 0 /\ k <= Len(s) /\ s[k] = JV THEN DigitRun(s, k + 1) ELSE <<>>

\* re.search: the leftmost match's group 1 as {group}, or {} for no match
SearchDirect(s) ==
    LET hits == {i \in 1..Len(s) : DirectGroupAt(s, i) # <<>>}
    IN  IF hits = {} THEN {}
        ELSE {DirectGroupAt(s, CHOOSE i \in hits : \A j \in hits : i <= j)}
SearchSymbolic(s) ==
    LET hits == {i \in 1..Len(s) : SymbolicGroupAt(s, i) # <<>>}
    IN  IF hits = {} THEN {}
        ELSE {SymbolicGroupAt(s, CHOOSE i \in hits : \A j \in hits : i <= j)}

\* gradle: {} when build.gradle does not exist, else {content};
\* readable: FALSE when open() or read() raises
DetectSymbolicFirst(gradle, readable) ==
    IF gradle = {} \/ ~readable THEN {}
    ELSE LET content == CHOOSE c \in gradle : TRUE
         IN  IF SearchSymbolic(content) # {} THEN SearchSymbolic(content)
             ELSE SearchDirect(content)
DetectJavaVersion(gradle, readable) ==
    IF gradle = {} THEN {}
    ELSE IF ~readable THEN {}
    ELSE LET content == CHOOSE c \in gradle : TRUE
         IN  IF SearchDirect(content) # {} THEN SearchDirect(content)
             ELSE IF SearchSymbolic(content) # {} THEN SearchSymbolic(content)
             ELSE {}

----------------------------------------------------------------------------
(* clone_repository: the local path of a repository *)

workspace_dir == <<".", "/", "workspace">>

RepoName(repo_url) == Replace(SplitLast(repo_url, "/"), ".git", <<>>)

\* os.path.join(self.workspace_dir, repo_name)
RepoPath(repo_url) == workspace_dir \o <<"/">> \o RepoName(repo_url)

----------------------------------------------------------------------------
(* update_circleci_config: the rendered configuration *)

PLACEHOLDER == "{{JAVA_DOCKER_IMAGE}}"

RenderFirstOnly(template, java_version_) ==
    ReplaceFirstOnly(template, PLACEHOLDER, GetDockerImage(java_version_))
RenderConfig(template, java_version_) ==
    Replace(template, PLACEHOLDER, GetDockerImage(java_version_))

----------------------------------------------------------------------------
(* The environment of a run: the files and the remote repositories *)

HTTPS == <<"https:", "/", "/", "github.com", "/">>
RepoUrls == {
    HTTPS \o <<"a", "/", "foo", ".git">>,
    HTTPS \o <<"b", "/", "foo">>,
    HTTPS \o <<"a", "/", "bar", ".git">> }

Entries == {[repository_url |-> u, branch |-> <<"main">>] : u \in RepoUrls}

\* a list file: its suffix, whether open() succeeds, its header row, its rows
Suffixes == {".csv", ".CSV", ".ini", ""}
Headers == { <<"repository_url", "branch">>, <<"repository_url">>, <<"url", "branch">> }
RepoFiles == [suffix : Suffixes, readable : BOOLEAN, header : Headers,
              rows : SeqsUpTo(Entries, MaxRepos)]

\* master templates: without the placeholder, and with it twice
Templates == { <<"version: 2">>,
               <<"image: ", PLACEHOLDER, "image: ", PLACEHOLDER>> }
MasterFiles == [readable : BOOLEAN, content : Templates]

\* build.gradle of a remote repository: {} is no such file
GradleFiles == { {},
                 {<<SC, " ", "=", " ", "'", "1", "7", "'">>},
                 {<<SC, "=", JV, "1", "1">>},
                 {<<"apply plugin">>} }

OldConfig == <<"version: 1">>

\* .circleci/config.yml of a remote repository: none, a stale one, or what the
\* run would render for it
RemoteConfigs(template, gradle) ==
    { {}, {OldConfig} } \cup
    { {RenderConfig(template, v)} : v \in DetectJavaVersion(gradle, TRUE) }

----------------------------------------------------------------------------
(* The run *)

Init ==
    /\ pc = "start"
    /\ repo_file \in RepoFiles
    /\ master_config_file \in MasterFiles
    /\ master_config_template = {}
    /\ repos = <<>>
    /\ idx = 0
    /\ repo_path = {}
    /\ java_version = {}
    /\ wc = <<>>
    /\ stages = <<>>
    /\ gitOps = <<>>
    /\ attempts = <<>>
    /\ exit_status = {}
    /\ fnInput = <<>>
    /\ fnOutput = {}

\* sys.exit(1)
SysExit ==
    /\ pc' = "exit"
    /\ exit_status' = {1}

\* an exception nothing catches leaves main(): traceback, status 1
Uncaught ==
    /\ pc' = "crashed"
    /\ exit_status' = {1}

\* __init__: os.makedirs(workspace_dir), then _load_master_config_template
Construct ==
    /\ pc = "start"
    /\ \E makedirs_ok \in BOOLEAN :
          IF ~makedirs_ok
          THEN Uncaught /\ UNCHANGED master_config_template
          ELSE IF ~master_config_file.readable
          THEN SysExit /\ UNCHANGED master_config_template
          ELSE /\ master_config_template' = {master_config_file.content}
               /\ pc' = "read"
               /\ UNCHANGED exit_status
    /\ UNCHANGED <<repo_file, master_config_file, repos, idx, repo_path,
                   java_version, wc, stages, gitOps, attempts, fnInput, fnOutput>>

\* Path(...).suffix.lower()
Lower(suffix) == IF suffix = ".CSV" THEN ".csv" ELSE suffix

\* csv.DictReader: a row is a dict over the header's names
HasColumn(header, name) == \E i \in 1..Len(header) : header[i] = name

\* open() raises, or row['repository_url'] or row['branch'] raises KeyError
ReadRaisesOnlyOnOpen(file) == ~file.readable
ReadRaises(file) ==
    \/ ~file.readable
    \/ /\ file.rows # <<>>
       /\ ~(HasColumn(file.header, "repository_url") /\ HasColumn(file.header, "branch"))

ParsedRepos(file) ==
    [i \in 1..Len(file.rows) |->
        [url |-> file.rows[i].repository_url, branch |-> file.rows[i].branch]]

\* the for loop of process_repositories moves to the entry after i
NextEntry(list, i) ==
    IF i < Len(list)
    THEN /\ pc' = "checkout"
         /\ idx' = i + 1
         /\ UNCHANGED exit_status
    ELSE /\ pc' = "done"
         /\ idx' = i
         /\ exit_status' = {0}

\* read_repositories, called first by process_repositories
ReadRepositories ==
    /\ pc = "read"
    /\ IF Lower(repo_file.suffix) # ".csv"
       THEN SysExit /\ UNCHANGED <<repos, idx>>
       ELSE IF ReadRaises(repo_file)
       THEN SysExit /\ UNCHANGED <<repos, idx>>
       ELSE /\ repos' = ParsedRepos(repo_file)
            /\ NextEntry(ParsedRepos(repo_file), 0)
    /\ UNCHANGED <<repo_file, master_config_file, master_config_template,
                   repo_path, java_version, wc, stages, gitOps, attempts,
                   fnInput, fnOutput>>

\* the entry being processed, and its local path
Current == repos[idx]
CurrentPath == CHOOSE p \in repo_path : TRUE
CurrentVersion == CHOOSE v \in java_version : TRUE

\* "if not repo_path: continue", "if not java_version: continue",
\* "if self.update_circleci_config(...):": the next stage runs only after success
ContinueRegardless(ok, next_stage) ==
    /\ pc' = next_stage
    /\ UNCHANGED <<idx, exit_status>>
Continue(ok, next_stage) ==
    IF ok
    THEN /\ pc' = next_stage
         /\ UNCHANGED <<idx, exit_status>>
    ELSE NextEntry(repos, idx)

\* a fresh clone of a remote repository on the requested branch
Cloned(repo_url, gradle, config) ==
    [origin |-> repo_url, gradle |-> gradle,
     head |-> config, index |-> config, file |-> config]

\* clone_repository(repo_url, branch), and the orchestrator's branch on its result
Checkout ==
    /\ pc = "checkout"
    /\ LET repo_url == Current.url
           path == RepoPath(repo_url)
       IN  \E ok \in BOOLEAN :
             /\ IF path \in DOMAIN wc
                THEN \* fetch, checkout, pull of the existing working copy
                     UNCHANGED wc
                ELSE IF ok
                THEN \E gradle \in GradleFiles :
                       \E config \in RemoteConfigs(CHOOSE t \in master_config_template : TRUE,
                                                   gradle) :
                          wc' = (path :> Cloned(repo_url, gradle, config)) @@ wc
                ELSE UNCHANGED wc
             /\ repo_path' = IF ok THEN {path} ELSE {}
             /\ stages' = <<[stage |-> "checkout", ok |-> ok]>>
             /\ Continue(ok, "detect")
    /\ attempts' = Append(attempts, idx)
    /\ java_version' = {}
    /\ gitOps' = <<>>
    /\ UNCHANGED <<repo_file, master_config_file, master_config_template, repos,
                   fnInput, fnOutput>>

\* detect_java_version(repo_path), and the orchestrator's branch on its result
Detect ==
    /\ pc = "detect"
    /\ \E readable \in BOOLEAN :
         LET version == DetectJavaVersion(wc[CurrentPath].gradle, readable)
         IN  /\ java_version' = version
             /\ stages' = Append(stages, [stage |-> "detect", ok |-> version # {}])
             /\ Continue(version # {}, "render")
    /\ UNCHANGED <<repo_file, master_config_file, master_config_template, repos,
                   repo_path, wc, gitOps, attempts, fnInput, fnOutput>>

\* what the file system does to update_circleci_config
FsOutcomes == {"ok", "makedirs raises", "open raises", "write raises"}

\* update_circleci_config(repo_path, java_version), and the orchestrator's branch
Render ==
    /\ pc = "render"
    /\ \E fs \in FsOutcomes :
         LET config_content == RenderConfig(CHOOSE t \in master_config_template : TRUE,
                                            CurrentVersion)
             w == wc[CurrentPath]
         IN  IF fs = "makedirs raises"
             THEN \* os.makedirs is outside the try block
                  /\ Uncaught
                  /\ stages' = Append(stages, [stage |-> "render", ok |-> FALSE])
                  /\ UNCHANGED <<wc, idx>>
             ELSE /\ wc' = [wc EXCEPT ![CurrentPath].file =
                               CASE fs = "ok" -> {config_content}
                                 [] fs = "open raises" -> w.file
                                 [] fs = "write raises" -> {<<>>}]   \* truncated by open
                  /\ stages' = Append(stages, [stage |-> "render", ok |-> fs = "ok"])
                  /\ Continue(fs = "ok", "publish")
    /\ UNCHANGED <<repo_file, master_config_file, master_config_template, repos,
                   repo_path, java_version, gitOps, attempts, fnInput, fnOutput>>

\* repo.is_dirty(): the index differs from HEAD, or a tracked file differs from
\* the index; untracked files do not count (untracked_files=False)
IsDirtyAlways(w) == TRUE
IsDirty(w) ==
    \/ w.index # w.head
    \/ w.index # {} /\ w.file # w.index

CONFIG_PATH == ".circleci/config.yml"
CommitMessage(java_version_) == <<"Update CircleCI config for Java ">> \o java_version_

\* which git command raises in commit_and_push_changes
GitOutcomes == {"ok", "add raises", "commit raises", "push raises"}

\* commit_and_push_changes(repo_path, java_version); its result is discarded
Publish ==
    /\ pc = "publish"
    /\ LET w == wc[CurrentPath]
           add == [op |-> "add", arg |-> <<CONFIG_PATH>>]
           commit == [op |-> "commit", arg |-> CommitMessage(CurrentVersion)]
           push == [op |-> "push", arg |-> <<>>]
       IN  IF ~IsDirty(w)
           THEN /\ gitOps' = <<>>
                /\ stages' = Append(stages, [stage |-> "publish", ok |-> TRUE])
                /\ UNCHANGED wc
           ELSE \E git \in GitOutcomes :
                  IF git = "add raises"
                  THEN /\ gitOps' = <<add @@ [ok |-> FALSE]>>
                       /\ stages' = Append(stages, [stage |-> "publish", ok |-> FALSE])
                       /\ UNCHANGED wc
                  ELSE IF git = "commit raises" \/ w.file = w.head
                  THEN \* git commit fails when nothing is staged
                       /\ gitOps' = <<add @@ [ok |-> TRUE], commit @@ [ok |-> FALSE]>>
                       /\ stages' = Append(stages, [stage |-> "publish", ok |-> FALSE])
                       /\ wc' = [wc EXCEPT ![CurrentPath].index = w.file]
                  ELSE /\ gitOps' = <<add @@ [ok |-> TRUE], commit @@ [ok |-> TRUE],
                                      push @@ [ok |-> git = "ok"]>>
                       /\ stages' = Append(stages, [stage |-> "publish", ok |-> git = "ok"])
                       /\ wc' = [wc EXCEPT ![CurrentPath].index = w.file,
                                           ![CurrentPath].head = w.file]
    /\ NextEntry(repos, idx)
    /\ UNCHANGED <<repo_file, master_config_file, master_config_template, repos,
                   repo_path, java_version, attempts, fnInput, fnOutput>>

Next ==
    \/ Construct
    \/ ReadRepositories
    \/ Checkout
    \/ Detect
    \/ Render
    \/ Publish

Spec == Init /\ [][Next]_vars

----------------------------------------------------------------------------
(* get_docker_image_for_java_version applied to any short string *)

VersionChars == {"0", "1", "3", "6", "7", "8", "9", "-", "+", " ", "_", "x"}

\* the state of the updater does not matter to a function of its arguments
Idle ==
    /\ repo_file = [suffix |-> ".csv", readable |-> TRUE,
                    header |-> <<"repository_url", "branch">>, rows |-> <<>>]
    /\ master_config_file = [readable |-> TRUE, content |-> <<"version: 2">>]
    /\ master_config_template = {<<"version: 2">>}
    /\ repos = <<>>
    /\ idx = 0
    /\ repo_path = {}
    /\ java_version = {}
    /\ wc = <<>>
    /\ stages = <<>>
    /\ gitOps = <<>>
    /\ attempts = <<>>
    /\ exit_status = {}

InitImage ==
    /\ pc = "call"
    /\ Idle
    /\ fnInput \in SeqsUpTo(VersionChars, MaxVersionLen)
    /\ fnOutput = {}

CallGetDockerImage ==
    /\ pc = "call"
    /\ pc' = "return"
    /\ fnOutput' = {GetDockerImage(fnInput)}
    /\ UNCHANGED <<repo_file, master_config_file, master_config_template, repos,
                   idx, repo_path, java_version, wc, stages, gitOps, attempts,
                   exit_status, fnInput>>

SpecImage == InitImage /\ [][CallGetDockerImage]_vars

----------------------------------------------------------------------------
(* detect_java_version applied to any short build.gradle *)

\* a statement of build.gradle: a property name, "=", and a value that is
\* digits or JavaVersion.VERSION_ and digits, bare or quoted
Statements == [lead : {SC, "targetCompatibility"},
               space : BOOLEAN,
               quote : {"none", "open", "both"},
               symbolic : BOOLEAN,
               digits : {<<>>, <<"1", "1">>, <<"1", "7">>}]

StatementText(st) ==
    <<st.lead>>
    \o (IF st.space THEN <<" ">> ELSE <<>>) \o <<"=">>
    \o (IF st.space THEN <<" ">> ELSE <<>>)
    \o (IF st.quote # "none" THEN <<"'">> ELSE <<>>)
    \o (IF st.symbolic THEN <<JV>> ELSE <<>>)
    \o st.digits
    \o (IF st.quote = "both" THEN <<"'">> ELSE <<>>)
    \o <<"\n">>

GradleText(statements) ==
    Concat([i \in 1..Len(statements) |-> StatementText(statements[i])])

\* build.gradle as the detector finds it: missing, unreadable, or readable
GradleInputs ==
    {[exists |-> FALSE, readable |-> FALSE, statements |-> <<>>]}
    \cup {[exists |-> TRUE, readable |-> FALSE, statements |-> <<st>>] : st \in Statements}
    \cup {[exists |-> TRUE, readable |-> TRUE, statements |-> sts] :
             sts \in SeqsUpTo(Statements, MaxStatements)}

InitDetect ==
    /\ pc = "call"
    /\ Idle
    /\ fnInput \in GradleInputs
    /\ fnOutput = {}

CallDetectJavaVersion ==
    /\ pc = "call"
    /\ pc' = "return"
    /\ fnOutput' = DetectJavaVersion(
                       IF fnInput.exists THEN {GradleText(fnInput.statements)} ELSE {},
                       fnInput.readable)
    /\ UNCHANGED <<repo_file, master_config_file, master_config_template, repos,
                   idx, repo_path, java_version, wc, stages, gitOps, attempts,
                   exit_status, fnInput>>

SpecDetect == InitDetect /\ [][CallDetectJavaVersion]_vars

----------------------------------------------------------------------------
(* Properties *)

Last(s) == s[Len(s)]
StageOrder == <<"checkout", "detect", "render", "publish">>
Identity(n) == [i \in 1..n |-> i]
AllOk(ops) == \A i \in 1..Len(ops) : ops[i].ok

\* the three git commands of a publication, all successful
FullPublication(java_version_) ==
    << [op |-> "add", arg |-> <<".circleci/config.yml">>, ok |-> TRUE],
       [op |-> "commit",
        arg |-> <<"Update CircleCI config for Java ">> \o java_version_, ok |-> TRUE],
       [op |-> "push", arg |-> <<>>, ok |-> TRUE] >>

\* C1: process_repositories attempts every entry of the list exactly once and
\* in list order, whatever happens to the earlier entries: when the run over
\* the list has ended, clone_repository has been called for entries 1, 2, ..., n.
C1_EveryEntryAttempted ==
    pc \in {"done", "crashed"} => attempts = Identity(Len(repos))

\* C2: when the rendered config.yml differs from the checked-out state (other
\* content, or no such file in the checkout), commit_and_push_changes stages
\* .circleci/config.yml, commits with "Update CircleCI config for Java
\* {version}", pushes and reports success.  Stated for the calls in which no
\* git command raises.
C2_DifferenceIsPublished ==
    [][ ( /\ pc = "publish"
          /\ wc[CurrentPath].file # wc[CurrentPath].head
          /\ AllOk(gitOps') )
        => ( /\ gitOps' = FullPublication(CurrentVersion)
             /\ Last(stages').ok ) ]_vars

\* C3: when nothing in the working copy differs from HEAD (in particular when
\* the committed config.yml already equals the rendered one),
\* commit_and_push_changes runs no git add, commit or push, leaves the working
\* copy as it is, and returns success.
C3_CleanIsNoOp ==
    [][ ( /\ pc = "publish"
          /\ wc[CurrentPath].file = wc[CurrentPath].head
          /\ wc[CurrentPath].index = wc[CurrentPath].head )
        => ( /\ gitOps' = <<>>
             /\ wc' = wc
             /\ Last(stages') = [stage |-> "publish", ok |-> TRUE] ) ]_vars

C3_Witness ==
    /\ stages # <<>>
    /\ Last(stages) = [stage |-> "publish", ok |-> TRUE]
    /\ gitOps = <<>>
    /\ wc[CurrentPath].head # {}
    /\ wc[CurrentPath].file = wc[CurrentPath].head
    /\ wc[CurrentPath].file =
          {RenderConfig(CHOOSE t \in master_config_template : TRUE, CurrentVersion)}

\* C4: the run ends abnormally only when the list or the template could not be
\* loaded, and a failure of update_circleci_config (creating .circleci or
\* writing config.yml) is a failure of that repository only: no publication for
\* it, and the run goes on to the next entry or to its normal end.
C4_FailuresStayPerRepository ==
    /\ exit_status = {1} => (pc = "exit" \/ master_config_template = {})
    /\ (stages # <<>> /\ Last(stages) = [stage |-> "render", ok |-> FALSE])
          => (pc \in {"checkout", "done"} /\ gitOps = <<>>)

UnsupportedSuffix == repo_file.suffix \notin {".csv", ".CSV"}
Unparseable ==
    \/ ~repo_file.readable
    \/ /\ repo_file.rows # <<>>
       /\ \/ \A i \in 1..Len(repo_file.header) : repo_file.header[i] # "repository_url"
          \/ \A i \in 1..Len(repo_file.header) : repo_file.header[i] # "branch"

C6_ImageSelection ==
    pc = "return" =>
        /\ fnOutput \in {{ImageA}, {ImageB}}
        /\ fnOutput = {ImageA} <=> (IntParses(fnInput) /\ IntValue(fnInput) >= 17)
        /\ fnInput = <<"1", "7">> => fnOutput = {ImageA}
        /\ fnInput \in {<<"1", "3">>, <<"1", "6">>, <<"8">>, <<"x">>, <<>>, <<"-", "1", "7">>}
              => fnOutput = {ImageB}

C6_Witness ==
    /\ pc = "return"
    /\ fnInput = <<"1", "7">>
    /\ fnOutput = {ImageA}

Substituted(template, image) ==
    [i \in 1..Len(template) |->
        IF template[i] = "{{JAVA_DOCKER_IMAGE}}" THEN image[1] ELSE template[i]]

\* C7: what update_circleci_config has written is the master template with the
\* image in the place of every {{JAVA_DOCKER_IMAGE}}, whatever the file held
\* before and whatever was processed earlier; a template without the token is
\* written as it is.
C7_RenderedContent ==
    pc = "publish" =>
        LET template == master_config_file.content
        IN  /\ master_config_template = {template}
            /\ wc[CurrentPath].file =
                   {Substituted(template, GetDockerImage(CurrentVersion))}
            /\ (\A i \in 1..Len(template) : template[i] # "{{JAVA_DOCKER_IMAGE}}")
                   => wc[CurrentPath].file = {template}

C7_Witness ==
    /\ pc = "publish"
    /\ idx = 2
    /\ wc[CurrentPath].head = {OldConfig}
    /\ \E i \in 1..Len(master_config_file.content) :
          master_config_file.content[i] = "{{JAVA_DOCKER_IMAGE}}"
    /\ wc[CurrentPath].file # {master_config_file.content}

IsDirectForm(st) == st.lead = "sourceCompatibility" /\ ~st.symbolic /\ st.digits # <<>>
IsSymbolicForm(st) ==
    st.lead = "sourceCompatibility" /\ st.symbolic /\ st.quote = "none" /\ st.digits # <<>>
FirstDigits(sts, Form(_)) ==
    LET hits == {i \in 1..Len(sts) : Form(sts[i])}
    IN  IF hits = {} THEN {}
        ELSE {sts[CHOOSE i \in hits : \A j \in hits : i <= j].digits}

\* C8: detect_java_version returns at most one value: the digits of the first
\* direct assignment (sourceCompatibility = <digits>, bare or quoted) if the
\* file has one; otherwise the digits of the first sourceCompatibility =
\* JavaVersion.VERSION_<digits> if it has one; otherwise nothing, as when
\* build.gradle is missing or unreadable.
C8_PatternPriority ==
    pc = "return" =>
        LET sts == fnInput.statements
        IN  /\ Cardinality(fnOutput) <= 1
            /\ fnOutput =
                 IF ~fnInput.exists \/ ~fnInput.readable THEN {}
                 ELSE IF FirstDigits(sts, IsDirectForm) # {}
                 THEN FirstDigits(sts, IsDirectForm)
                 ELSE FirstDigits(sts, IsSymbolicForm)

C8_Witness ==
    /\ pc = "return"
    /\ Len(fnInput.statements) = 2
    /\ IsSymbolicForm(fnInput.statements[1])
    /\ IsDirectForm(fnInput.statements[2])
    /\ fnInput.statements[1].digits = <<"1", "1">>
    /\ fnOutput = {<<"1", "7">>}

\* C9: list entries with different URLs have different local paths, so a stage
\* of one entry always works on the working copy cloned from that entry's URL.
C9_OwnWorkingCopy ==
    pc \in {"detect", "render", "publish"} =>
        wc[CurrentPath].origin = Current.url

\* C10: for each entry the stages run at most once and in the order checkout,
\* detect, render, publish, each only after the one before it succeeded; no
\* entry is taken up twice; git add, commit and push run only after checkout,
\* detection and rendering all succeeded.
C10_StagesGated ==
    /\ Len(stages) <= 4
    /\ \A i \in 1..Len(stages) :
          /\ stages[i].stage = StageOrder[i]
          /\ i > 1 => stages[i - 1].ok
    /\ attempts = Identity(Len(attempts))
    /\ pc = "detect" => (repo_path # {} /\ Len(stages) = 1)
    /\ pc = "render" => (java_version # {} /\ Len(stages) = 2)
    /\ pc = "publish" => (Len(stages) = 3 /\ Last(stages).ok)
    /\ Len(stages) >= 2 => repo_path # {}
    /\ Len(stages) >= 3 => java_version # {}
    /\ gitOps # <<>> =>
          /\ Len(stages) = 4
          /\ \A i \in 1..3 : stages[i].ok

C10_Witness ==
    /\ Len(attempts) = 3
    /\ Len(stages) = 4
    /\ gitOps = FullPublication(CurrentVersion)

====
